---- MODULE Spec2Model ----
(***************************************************************************)
(* Retrieval-and-synthesis pipeline of backend/retrieval_handler.py:       *)
(* the two response extraction functions, the deep retrieval and the two   *)
(* fan-out orchestrators (insights, persona podcasts).                     *)
(*                                                                         *)
(* A model reply is kept as what the code reads of it: whether the regex   *)
(* \{.*\} finds a brace-delimited substring, whether json.loads accepts    *)
(* it, the parsed object (an ordered list of key/value pairs), the         *)
(* captures re.findall yields for each of the six dialogue patterns, and   *)
(* the length of the stripped text.                                        *)
(***************************************************************************)
EXTENDS Integers, Sequences, FiniteSets, TLC

(***************************************************************************)
(* Bounds of the model.                                                    *)
(***************************************************************************)
\* depth at which the interpreter gives up a self-recursion (RecursionError)
RecursionLimit == 3
\* longest list of raw candidates the vector store answers with
MaxCandidates == 3
\* patterns of one reply text that have any match at all
MaxActivePatterns == 2

(***************************************************************************)
(* JSON values, tagged by their Python type.                               *)
(***************************************************************************)
JStr(s) == [t |-> "str", s |-> s]
JNum(n) == [t |-> "num", n |-> n]
JObj(d) == [t |-> "dict", d |-> d]
JList(xs) == [t |-> "list", xs |-> xs]

IsStr(v) == v.t = "str"
IsDict(v) == v.t = "dict"
IsList(v) == v.t = "list"

\* a parsed JSON object: pairs [k, v] in document order, keys distinct
HasKey(obj, key) == \E i \in 1..Len(obj) : obj[i].k = key
GetKey(obj, key) == obj[CHOOSE i \in 1..Len(obj) : obj[i].k = key].v

\* dict[k] = v when k is not in dict (the "if k not in d: d[k] = v" idiom)
SetDefault(d, k, v) ==
    IF k \in DOMAIN d THEN d
    ELSE [x \in (DOMAIN d) \cup {k} |-> IF x = k THEN v ELSE d[x]]

\* what a function returns: a value, or an exception leaving it
Return(v) == [kind |-> "value", val |-> v]
Raise(e) == [kind |-> "exc", val |-> e]
IsExc(r) == r.kind = "exc"

\* a reply whose text has no brace-delimited substring and no pattern match
NoMatches == [p \in 1..6 |-> <<>>]
EmptyText == [json |-> "none", obj |-> <<>>, pat |-> NoMatches, n |-> 0]

\* json.dumps({key: value}) as re.search and json.loads read it back
DumpsSingle(key, value) ==
    [json |-> "obj", obj |-> <<[k |-> key, v |-> value]>>, pat |-> NoMatches, n |-> 50]

(***************************************************************************)
(* extract_insights_from_response                                          *)
(***************************************************************************)
InsightType(key) ==
    CASE key = "contradictions" -> "contradiction"
      [] key = "enhancements" -> "enhancement"
      [] key = "connections" -> "connection"
      [] OTHER -> key

alternative_keys(key) ==
    CASE key = "contradictions" -> <<"contradictory", "opposing", "conflicts", "disagreements">>
      [] key = "enhancements" -> <<"details", "expansions", "elaborations", "specifics">>
      [] key = "connections" -> <<"related", "links", "associations", "relationships">>
      [] OTHER -> <<>>

\* a variant that keeps a mapping as it is
ValidateInsightAsIs(insight, insight_type) ==
    IF IsDict(insight) THEN <<insight>>
    ELSE IF IsStr(insight)
    THEN <<JObj([original_content |-> insight,
                 page_number |-> JNum(0),
                 document_name |-> JStr("Unknown Document"),
                 bounding_box |-> JObj(<<>>)])>>
    ELSE <<>>

\* one element of the list under the expected key, validated
ValidateInsight(insight, insight_type) ==
    IF IsDict(insight)
    THEN <<JObj(SetDefault(SetDefault(SetDefault(insight.d,
              "original_content", JStr("Content not available for this " \o insight_type)),
              "page_number", JNum(0)),
              "document_name", JStr("Unknown Document")))>>
    ELSE IF IsStr(insight)
    THEN <<JObj([original_content |-> insight,
                 page_number |-> JNum(0),
                 document_name |-> JStr("Unknown Document"),
                 bounding_box |-> JObj(<<>>)])>>
    ELSE <<>>

RECURSIVE ValidateInsights(_, _)
ValidateInsights(insights, insight_type) ==
    IF insights = <<>> THEN <<>>
    ELSE ValidateInsight(Head(insights), insight_type)
           \o ValidateInsights(Tail(insights), insight_type)

\* the value of the first alias key that is present and holds a non-empty list
RECURSIVE FirstAliasList(_, _)
FirstAliasList(obj, alts) ==
    IF alts = <<>> THEN <<>>
    ELSE IF /\ HasKey(obj, Head(alts))
            /\ IsList(GetKey(obj, Head(alts)))
            /\ GetKey(obj, Head(alts)).xs # <<>>
         THEN <<GetKey(obj, Head(alts))>>
         ELSE FirstAliasList(obj, Tail(alts))

\* the value of the first key, in document order, that holds a non-empty list
RECURSIVE FirstListValue(_)
FirstListValue(obj) ==
    IF obj = <<>> THEN <<>>
    ELSE IF IsList(Head(obj).v) /\ Head(obj).v.xs # <<>>
         THEN <<Head(obj).v>>
         ELSE FirstListValue(Tail(obj))

RECURSIVE extract_insights_from_response(_, _, _)
extract_insights_from_response(text, expected_key, depth) ==
    IF depth > RecursionLimit THEN Raise("RecursionError")
    ELSE IF text.json # "obj" THEN Return(<<>>)
    ELSE
      LET parsed_json == text.obj
          validated_insights ==
              IF HasKey(parsed_json, expected_key) /\ IsList(GetKey(parsed_json, expected_key))
              THEN ValidateInsights(GetKey(parsed_json, expected_key).xs, InsightType(expected_key))
              ELSE <<>>
          alt_insights == FirstAliasList(parsed_json, alternative_keys(expected_key))
          wrapped == FirstListValue(parsed_json)
      IN  IF validated_insights # <<>> THEN Return(validated_insights)
          ELSE IF alt_insights # <<>>
          THEN extract_insights_from_response(
                   DumpsSingle(expected_key, alt_insights[1]), expected_key, depth + 1)
          ELSE IF wrapped # <<>>
          THEN extract_insights_from_response(
                   DumpsSingle(expected_key, wrapped[1]), expected_key, depth + 1)
          ELSE Return(<<>>)

(***************************************************************************)
(* extract_podcast_conversation_from_response                              *)
(***************************************************************************)
PERSONA_STYLES == <<"debater", "investigator", "fundamentals", "connections">>
Personas == {PERSONA_STYLES[i] : i \in 1..Len(PERSONA_STYLES)}

MinExchanges == 4
MaxExchanges == 12
MinLineLen == 10

conversation_alternative_keys ==
    <<"dialogue", "script", "podcast", "messages", "exchanges", "lines">>

AllStrings(xs) == \A i \in 1..Len(xs) : IsStr(xs[i])

\* a variant that keeps an odd length as it is
TrimToEvenNever(xs) == xs

\* conversation[:-1] when the length is odd
TrimToEven(xs) == IF Len(xs) % 2 = 0 THEN xs ELSE SubSeq(xs, 1, Len(xs) - 1)

\* the first alias key, in probe order, that the object has (the loop breaks there)
RECURSIVE FirstAliasPresent(_, _)
FirstAliasPresent(obj, alts) ==
    IF alts = <<>> THEN <<>>
    ELSE IF HasKey(obj, Head(alts)) THEN <<Head(alts)>>
    ELSE FirstAliasPresent(obj, Tail(alts))

\* a variant of tiers 1-3 whose expected-key branch does not test the items
ConversationFromJsonUnchecked(text) ==
    IF text.json # "obj" THEN <<>>
    ELSE
      LET parsed_json == text.obj IN
      IF HasKey(parsed_json, "conversation")
      THEN LET conversation == GetKey(parsed_json, "conversation") IN
           IF IsList(conversation) /\ Len(conversation.xs) >= 4
           THEN TrimToEven(conversation.xs)
           ELSE <<>>
      ELSE <<>>

\* tiers 1-3: the conversation found in the JSON object, <<>> when none is
ConversationFromJson(text) ==
    IF text.json # "obj" THEN <<>>
    ELSE
      LET parsed_json == text.obj IN
      IF HasKey(parsed_json, "conversation")
      THEN LET conversation == GetKey(parsed_json, "conversation") IN
           IF /\ IsList(conversation)
              /\ AllStrings(conversation.xs)
              /\ Len(conversation.xs) >= MinExchanges
           THEN TrimToEven(conversation.xs)
           ELSE <<>>
      ELSE LET found == FirstAliasPresent(parsed_json, conversation_alternative_keys) IN
           IF found = <<>> THEN <<>>
           ELSE LET alt_conversation == GetKey(parsed_json, found[1]) IN
                IF /\ IsList(alt_conversation)
                   /\ Len(alt_conversation.xs) >= MinExchanges
                   /\ AllStrings(alt_conversation.xs)
                THEN TrimToEven(alt_conversation.xs)
                ELSE <<>>

\* a capture of re.findall: its text without the surrounding whitespace, and
\* how many whitespace characters surround it
Strip(match) == match.body

\* [match.strip() for match in matches if len(match.strip()) > 10]
RECURSIVE CleanMatches(_)
CleanMatches(matches) ==
    IF matches = <<>> THEN <<>>
    ELSE (IF Len(Strip(Head(matches))) > MinLineLen
          THEN <<JStr(Strip(Head(matches)))>> ELSE <<>>)
         \o CleanMatches(Tail(matches))

FirstN(xs, n) == SubSeq(xs, 1, IF Len(xs) < n THEN Len(xs) ELSE n)

\* a variant that goes through dialogue_patterns from the last to the first
RECURSIVE ExtractedLinesReversed(_, _)
ExtractedLinesReversed(pat, p) ==
    IF p > 6 THEN <<>>
    ELSE IF Len(CleanMatches(pat[7 - p])) >= MinExchanges
         THEN FirstN(CleanMatches(pat[7 - p]), MaxExchanges)
         ELSE ExtractedLinesReversed(pat, p + 1)

\* the loop over dialogue_patterns from pattern p on: the first pattern with
\* at least 4 cleaned matches gives extracted_lines, capped at 12
RECURSIVE ExtractedLines(_, _)
ExtractedLines(pat, p) ==
    IF p > 6 THEN <<>>
    ELSE IF Len(CleanMatches(pat[p])) >= MinExchanges
         THEN FirstN(CleanMatches(pat[p]), MaxExchanges)
         ELSE ExtractedLines(pat, p + 1)

\* tier 4: the pattern-based text fallback, <<>> when no pattern qualifies
ConversationFromText(text) ==
    LET extracted_lines == ExtractedLines(text.pat, 1) IN
    IF extracted_lines # <<>> /\ Len(extracted_lines) >= MinExchanges
    THEN TrimToEven(extracted_lines)
    ELSE <<>>

Strs(ss) == [i \in 1..Len(ss) |-> JStr(ss[i])]

fallback_conversations(persona) ==
    CASE persona = "debater" -> Strs(<<
            "Welcome to our debate-style analysis of your selected text.",
            "I believe this topic has some controversial aspects worth discussing.",
            "That's an interesting perspective. However, I see some counterarguments.",
            "Fair point, but let's consider the evidence from multiple angles.",
            "The data seems to support both viewpoints to some degree.",
            "True, this complexity makes it a fascinating subject for analysis.",
            "Let's explore what the context reveals about these different positions.",
            "The insights suggest this topic deserves deeper investigation.">>)
      [] persona = "investigator" -> Strs(<<
            "Let's investigate your selected text with a critical eye.",
            "The evidence in our context provides several key insights.",
            "What specific details support these findings?",
            "The documentation shows clear patterns worth examining.",
            "Are there any gaps in the information we should note?",
            "Good question - some areas definitely need more investigation.",
            "The factual analysis reveals important connections.",
            "This investigation approach helps uncover hidden insights.">>)
      [] persona = "fundamentals" -> Strs(<<
            "Let's start with the basic concepts underlying your selected text.",
            "Understanding the fundamentals is crucial for deeper analysis.",
            "What are the core principles we should establish first?",
            "The foundational elements include several key components.",
            "How do these basics connect to more advanced concepts?",
            "That's where it gets interesting - the progression is quite logical.",
            "Building from these fundamentals leads to richer understanding.",
            "Exactly, this step-by-step approach reveals the full picture.">>)
      [] persona = "connections" -> Strs(<<
            "Let's explore the surprising connections in your selected text.",
            "This topic links to several unexpected areas worth discussing.",
            "What patterns do you see emerging across different domains?",
            "The connections span multiple fields in fascinating ways.",
            "Are there analogies that might help illustrate these relationships?",
            "Great question - there are some compelling parallels to consider.",
            "These cross-domain insights reveal deeper underlying principles.",
            "The interconnected nature of knowledge always amazes me.">>)
      [] OTHER -> Strs(<<
            "Welcome to our podcast discussion.",
            "Unfortunately, we encountered some technical difficulties.",
            "Let's explore your selected text as best we can.",
            "The context provides valuable insights worth discussing.",
            "Thank you for your patience with this analysis.",
            "We hope this perspective is still helpful.",
            "Please feel free to try again for better results.",
            "Thanks for listening to our discussion.">>)

\* a variant whose last tier ignores the persona
extract_conversation_one_fallback(text, persona) ==
    IF ConversationFromJson(text) # <<>> THEN ConversationFromJson(text)
    ELSE IF ConversationFromText(text) # <<>> THEN ConversationFromText(text)
    ELSE fallback_conversations("debater")

extract_podcast_conversation_from_response(text, persona) ==
    IF ConversationFromJson(text) # <<>> THEN ConversationFromJson(text)
    ELSE IF ConversationFromText(text) # <<>> THEN ConversationFromText(text)
    ELSE fallback_conversations(persona)

(***************************************************************************)
(* retrieve_large_context_async                                            *)
(***************************************************************************)
MinSelectionLen == 3

\* a selection text: its content without the surrounding whitespace, and the
\* number of whitespace characters around it
Selections ==
    { [body |-> "", ws |-> 0], [body |-> "ab", ws |-> 2],
      [body |-> "solar panels", ws |-> 0] }

\* not user_selection or len(user_selection.strip()) < 3
SelectionTooShort(user_selection) ==
    \/ Len(user_selection.body) + user_selection.ws = 0
    \/ Len(Strip(user_selection)) < MinSelectionLen

\* json.loads on the strings a stored bounding_box holds
JsonLoads(s) ==
    CASE s = "{\"x0\": 1, \"y0\": 2, \"x1\": 3, \"y1\": 4}" ->
             Return(JObj([x0 |-> JNum(1), y0 |-> JNum(2), x1 |-> JNum(3), y1 |-> JNum(4)]))
      [] s = "{}" -> Return(JObj(<<>>))
      [] s = "[1, 2]" -> Return(JList(<<JNum(1), JNum(2)>>))
      [] OTHER -> Raise("JSONDecodeError")

JNull == [t |-> "null"]

\* not content
Falsy(v) == v \in {JStr(""), JNum(0), JNull}

\* meta.get('original_content', '')
ContentOf(meta) ==
    IF "original_content" \in DOMAIN meta.d THEN meta.d.original_content ELSE JStr("")

\* the bounding_box handling of one record
WithBoundingBox(d) ==
    IF "bounding_box" \in DOMAIN d /\ IsStr(d.bounding_box)
    THEN [d EXCEPT !.bounding_box =
             IF IsExc(JsonLoads(d.bounding_box.s)) THEN JObj(<<>>)
             ELSE JsonLoads(d.bounding_box.s).val]
    ELSE SetDefault(d, "bounding_box", JObj(<<>>))

\* one accepted record, with its defaults
NormalizeRecord(meta) ==
    JObj(WithBoundingBox(
            SetDefault(SetDefault(meta.d, "page_number", JNum(0)),
                       "document_name", JStr("Unknown Document"))))

\* a variant of the loop that never records a content as seen
RECURSIVE UniqueResultsNoSeen(_, _)
UniqueResultsNoSeen(candidate_metadatas, seen_content) ==
    IF candidate_metadatas = <<>> THEN <<>>
    ELSE LET meta == Head(candidate_metadatas)
             rest == Tail(candidate_metadatas)
         IN  IF ~IsDict(meta) THEN UniqueResultsNoSeen(rest, seen_content)
             ELSE IF Falsy(ContentOf(meta)) \/ ContentOf(meta) \in seen_content
             THEN UniqueResultsNoSeen(rest, seen_content)
             ELSE <<NormalizeRecord(meta)>> \o UniqueResultsNoSeen(rest, seen_content)

\* the validate-and-clean loop: unique_results after the candidates from the
\* given one on, seen_content being the contents kept so far
RECURSIVE UniqueResults(_, _)
UniqueResults(candidate_metadatas, seen_content) ==
    IF candidate_metadatas = <<>> THEN <<>>
    ELSE LET meta == Head(candidate_metadatas)
             rest == Tail(candidate_metadatas)
         IN  IF ~IsDict(meta) THEN UniqueResults(rest, seen_content)
             ELSE IF Falsy(ContentOf(meta)) \/ ContentOf(meta) \in seen_content
             THEN UniqueResults(rest, seen_content)
             ELSE <<NormalizeRecord(meta)>>
                    \o UniqueResults(rest, seen_content \cup {ContentOf(meta)})

\* raw candidates the vector store may hold for a query
BBoxGood == JStr("{\"x0\": 1, \"y0\": 2, \"x1\": 3, \"y1\": 4}")
CandidatePool ==
    { JObj([original_content |-> JStr("alpha"), page_number |-> JNum(1),
            document_name |-> JStr("a.pdf"), bounding_box |-> BBoxGood]),
      JObj([original_content |-> JStr("beta")]),
      JObj([original_content |-> JStr(""), page_number |-> JNum(2)]),
      JObj([original_content |-> JStr("alpha"), page_number |-> JNum(7),
            document_name |-> JStr("b.pdf"), bounding_box |-> JStr("not json")]),
      JNull }

RECURSIVE SeqsUpTo(_, _)
SeqsUpTo(S, n) ==
    IF n = 0 THEN {<<>>}
    ELSE SeqsUpTo(S, n - 1) \cup
         {Append(q, x) : q \in {r \in SeqsUpTo(S, n - 1) : Len(r) = n - 1}, x \in S}

CandidateLists == SeqsUpTo(CandidatePool, MaxCandidates)

\* outcomes of genai.embed_content_async and of collection.query
EmbedOutcomes == {"raise", "novector", "ok"}
QueryOutcomes == {[kind |-> "raise", metadatas |-> <<>>]}
                   \cup {[kind |-> "ok", metadatas |-> c] : c \in CandidateLists}

\* a variant of the outer handler that lets the exception through
CatchNothing(r) == r

\* except Exception as e: ... return []  (the outer handler of both retrievals)
CatchAll(r) == IF IsExc(r) THEN Return(<<>>) ELSE r

\* a variant that orders the candidates by a score before cleaning them
retrieve_large_context_reranked(embed, query) ==
    IF embed = "raise" THEN Raise("EmbeddingError")
    ELSE IF embed = "novector" THEN Return(<<>>)
    ELSE IF query.kind = "raise" THEN Raise("QueryError")
    ELSE IF query.metadatas = <<>> THEN Return(<<>>)
    ELSE Return(UniqueResults(
             [i \in 1..Len(query.metadatas) |->
                 query.metadatas[Len(query.metadatas) + 1 - i]], {}))

\* the try block of retrieve_large_context_async once the embedding call is back
retrieve_large_context_body(embed, query) ==
    IF embed = "raise" THEN Raise("EmbeddingError")
    ELSE IF embed = "novector" THEN Return(<<>>)
    ELSE IF query.kind = "raise" THEN Raise("QueryError")
    ELSE IF query.metadatas = <<>> THEN Return(<<>>)
    ELSE Return(UniqueResults(query.metadatas, {}))

\* what retrieve_large_context_async returns once the embedding call is back
LargeContext(embed, query) == CatchAll(retrieve_large_context_body(embed, query)).val

(***************************************************************************)
(* Generation replies                                                      *)
(***************************************************************************)
MinResponseLen == 50

JsonReply(obj, n) == [json |-> "obj", obj |-> obj, pat |-> NoMatches, n |-> n]
Single(key, value) == <<[k |-> key, v |-> value]>>

\* section objects a reply may list
Section(i) ==
    JObj([original_content |-> JStr("section " \o ToString(i)),
          page_number |-> JNum(i), document_name |-> JStr("a.pdf")])
Sections(n) == [i \in 1..n |-> Section(i)]

\* replies to the insight prompt of one category
InsightReplies(key) ==
    { JsonReply(Single(key, JList(<<Section(1), JStr("loose text")>>)), 120),
      JsonReply(Single(key, JList(Sections(6))), 400),
      JsonReply(Single(key, JList(<<JNum(1), JNum(2)>>)), 60),
      JsonReply(Single(alternative_keys(key)[3], JList(<<JObj([text |-> JStr("x")])>>)), 60),
      JsonReply(Single(key, JList(<<>>)), 30),
      [EmptyText EXCEPT !.n = 40] }

Turns(n) == [i \in 1..n |-> JStr("t" \o ToString(i))]

\* captures of one pattern: long ones (more than 10 characters once stripped)
\* and short ones
Capture(p, i, long) ==
    [body |-> (IF long THEN "pattern " \o ToString(p) \o " line " ELSE "p" \o ToString(p) \o "l")
                 \o ToString(i),
     ws |-> 1]
Captures(p, shape) == [i \in 1..Len(shape) |-> Capture(p, i, shape[i])]

TextReply(pat, n) == [json |-> "none", obj |-> <<>>, pat |-> pat, n |-> n]
OnePattern(p, shape) == [q \in 1..6 |-> IF q = p THEN Captures(p, shape) ELSE <<>>]

\* replies to the podcast prompt
PodcastReplies ==
    { JsonReply(Single("conversation", JList(Turns(6))), 200),
      JsonReply(Single("conversation", JList(Turns(5))), 180),
      JsonReply(Single("conversation", JList(Turns(4))), 38),
      TextReply(OnePattern(2, <<TRUE, TRUE, FALSE, TRUE, TRUE, TRUE>>), 150),
      TextReply(OnePattern(2, <<TRUE, TRUE, TRUE>>), 70),
      [EmptyText EXCEPT !.n = 90] }

\* outcomes of generate_content_async: it raises, it answers without parts
\* (blocked), or it answers with a text
Raised == [kind |-> "raise", text |-> EmptyText]
Blocked == [kind |-> "blocked", text |-> EmptyText]
Reply(text) == [kind |-> "reply", text |-> text]
NotCalled == [kind |-> "none", text |-> EmptyText]

(***************************************************************************)
(* The generation tasks                                                    *)
(***************************************************************************)
InsightKeys == <<"enhancements", "connections", "contradictions">>

\* find_enhancements_async, find_connections_async, find_contradictions_async:
\* what the task of category key returns given the outcome of its call
find_insights_async(key, outcome) ==
    IF outcome.kind = "raise" THEN Return(<<>>)
    ELSE IF outcome.kind = "blocked" THEN Return(<<>>)
    ELSE LET r == extract_insights_from_response(outcome.text, key, 0) IN
         IF IsExc(r) THEN Return(<<>>) ELSE r

\* a variant of _generate_single_podcast_script without its except clause
script_without_except(persona, outcome) ==
    IF outcome.kind = "raise" THEN Raise("Exception")
    ELSE IF outcome.kind = "blocked" \/ outcome.text.n < 50
    THEN Return(<<persona, extract_podcast_conversation_from_response(EmptyText, persona)>>)
    ELSE Return(<<persona, extract_podcast_conversation_from_response(outcome.text, persona)>>)

\* a variant whose except clause labels its fallback "error"
script_unlabelled_fallback(persona, outcome) ==
    IF outcome.kind = "raise"
    THEN Return(<<"error", extract_podcast_conversation_from_response(EmptyText, persona)>>)
    ELSE IF outcome.kind = "blocked" \/ outcome.text.n < 50
    THEN Return(<<persona, extract_podcast_conversation_from_response(EmptyText, persona)>>)
    ELSE Return(<<persona, extract_podcast_conversation_from_response(outcome.text, persona)>>)

\* _generate_single_podcast_script: the (persona, conversation) pair
_generate_single_podcast_script(persona, outcome) ==
    IF outcome.kind = "raise"
    THEN Return(<<persona, extract_podcast_conversation_from_response(EmptyText, persona)>>)
    ELSE IF outcome.kind = "blocked"
    THEN Return(<<persona, extract_podcast_conversation_from_response(EmptyText, persona)>>)
    ELSE IF outcome.text.n = 0 \/ outcome.text.n < MinResponseLen
    THEN Return(<<persona, extract_podcast_conversation_from_response(EmptyText, persona)>>)
    ELSE Return(<<persona, extract_podcast_conversation_from_response(outcome.text, persona)>>)

(***************************************************************************)
(* The orchestrators                                                       *)
(***************************************************************************)
VARIABLES
    op,          \* the entry point invoked: "insights" or "podcast"
    selection,   \* its argument
    pc,          \* where the orchestrator is
    context,     \* large_context / context_sections
    tstate,      \* per task: "none", "pending", "awaiting" (its call), "done"
    outcome,     \* per task: the outcome of its generation call
    tresult,     \* per task: what the task returned or raised
    result,      \* the object the orchestrator returned
    embedCalls, queryCalls, genCalls,   \* service calls issued so far
    tcontext,    \* per task: the context its prompt was built from
    fn, input, param, output,      \* an extraction function applied alone
    candidates,  \* candidate_metadatas of a retrieval invoked alone
    scores,      \* what reranker.predict answered
    reranked,    \* reranked_results
    rerankCalls, \* calls of reranker.predict so far
    svc,         \* how the service calls of the retrieval ended
    apc,         \* per invocation of generate_podcast: where it is
    turns,       \* per invocation: len(conversation)
    files,       \* the temporary turn files of the working directory
    written,     \* per invocation: the turns whose synthesis has written its file
    segments,    \* per invocation: the segments read so far, by origin
    exported,    \* per invocation: the segments of the exported audio
    removed      \* per invocation: the files it has removed, by origin

vars == <<op, selection, pc, context, tstate, outcome, tresult, result,
          embedCalls, queryCalls, genCalls, tcontext, fn, input, param, output,
          candidates, scores, reranked, rerankCalls, svc,
          apc, turns, files, written, segments, exported, removed>>

orchVars == <<op, selection, pc, context, tstate, outcome, tresult, result,
              embedCalls, queryCalls, genCalls, tcontext>>
fnVars == <<fn, input, param, output>>
retrVars == <<candidates, scores, reranked, rerankCalls, svc>>
audioVars == <<apc, turns, files, written, segments, exported, removed>>

TaskNames(o) == IF o = "insights" THEN InsightKeys ELSE PERSONA_STYLES
Tasks(o) == {TaskNames(o)[i] : i \in 1..Len(TaskNames(o))}

NoResult == [k \in {} |-> <<>>]

EmptyInsights == [contradictions |-> <<>>, enhancements |-> <<>>, connections |-> <<>>]

PlaceholderConversation ==
    Strs(<<"Cannot generate a podcast without context.",
           "Please ensure your documents are properly indexed.">>)
NoContextPodcasts == [persona \in Personas |-> PlaceholderConversation]

\* what an orchestrator returns when it has no context
NoContextResult(o) == IF o = "insights" THEN EmptyInsights ELSE NoContextPodcasts

\* variants that never short-circuit
InsightsNoContextNever(large_context) == FALSE
PodcastNoContextNever(context_sections) == FALSE

\* if not large_context / if not context_sections
InsightsNoContext(large_context) == large_context = <<>>
PodcastNoContext(context_sections) == context_sections = <<>>
NoContext(o, ctx) == IF o = "insights" THEN InsightsNoContext(ctx) ELSE PodcastNoContext(ctx)

\* results[i] if not isinstance(results[i], Exception) else []
OrEmpty(r) == IF IsExc(r) THEN <<>> ELSE r.val

\* a variant that reads the gathered results in the order of the returned keys
AggregateInsightsSwapped(results) ==
    [enhancements |-> OrEmpty(results[2]),
     connections |-> OrEmpty(results[3]),
     contradictions |-> OrEmpty(results[1])]

\* the aggregation of generate_initial_insights_async; results in gather order
AggregateInsights(results) ==
    [enhancements |-> OrEmpty(results[1]),
     connections |-> OrEmpty(results[2]),
     contradictions |-> OrEmpty(results[3])]

\* {persona: conversation for persona, conversation in results}
AggregatePodcasts(results) ==
    [persona \in {results[i].val[1] : i \in 1..Len(results)} |->
        results[CHOOSE i \in 1..Len(results) :
                   /\ results[i].val[1] = persona
                   /\ \A j \in (i + 1)..Len(results) : results[j].val[1] # persona].val[2]]

\* a variant that stops waiting at the first finished task
InsightsGatherAny(states, results) == \E t \in DOMAIN states : states[t] = "done"

\* asyncio.gather(..., return_exceptions=True) is done when every task is
InsightsGatherDone(states, results) == \A t \in DOMAIN states : states[t] = "done"

\* asyncio.gather(*tasks) is done when every task is, or as soon as one raised
PodcastGatherDone(states, results) ==
    \/ \A t \in DOMAIN states : states[t] = "done"
    \/ \E t \in DOMAIN states : states[t] = "done" /\ IsExc(results[t])

OrchInit ==
    /\ op \in {"insights", "podcast"}
    /\ selection \in Selections
    /\ pc = "start"
    /\ context = <<>>
    /\ tstate = [t \in Tasks(op) |-> "none"]
    /\ outcome = [t \in Tasks(op) |-> NotCalled]
    /\ tresult = [t \in Tasks(op) |-> Return(<<>>)]
    /\ result = NoResult
    /\ embedCalls = 0 /\ queryCalls = 0
    /\ genCalls = [t \in Tasks(op) |-> 0]
    /\ tcontext = [t \in Tasks(op) |-> <<>>]

FnIdle ==
    /\ fn = "none" /\ input = EmptyText /\ param = "" /\ output = Return(<<>>)

NoCalls == [embed |-> "none", query |-> "none", rerank |-> "none"]

RetrIdle ==
    /\ candidates = <<>> /\ scores = <<>> /\ reranked = <<>>
    /\ rerankCalls = 0 /\ svc = NoCalls

\* generate_podcast: two requests of the endpoint, none started
Invocations == {1, 2}
NoFile == [inv |-> 0, idx |-> 0]

AudioIdle ==
    /\ apc = [i \in Invocations |-> "idle"]
    /\ turns = [i \in Invocations |-> 0]
    /\ files = <<>>
    /\ written = [i \in Invocations |-> {}]
    /\ segments = [i \in Invocations |-> <<>>]
    /\ exported = [i \in Invocations |-> <<>>]
    /\ removed = [i \in Invocations |-> <<>>]

Init == OrchInit /\ FnIdle /\ RetrIdle /\ AudioIdle

\* retrieve_large_context_async up to its await of the embedding call; a
\* selection that is too short makes it return [] and the orchestrator return
StartRetrieval ==
    /\ pc = "start"
    /\ IF SelectionTooShort(selection)
       THEN /\ pc' = "returned"
            /\ result' = NoContextResult(op)
            /\ UNCHANGED embedCalls
       ELSE /\ pc' = "embedding"
            /\ embedCalls' = embedCalls + 1
            /\ UNCHANGED result
    /\ UNCHANGED <<op, selection, context, tstate, outcome, tresult, queryCalls, genCalls, tcontext>>
    /\ UNCHANGED <<fnVars, retrVars, audioVars>>

\* the embedding call is back: the rest of retrieve_large_context_async (the
\* query, the validate-and-clean loop), then the orchestrator up to its gather
FinishRetrieval ==
    /\ pc = "embedding"
    /\ \E embed \in EmbedOutcomes, query \in QueryOutcomes :
         LET large_context == LargeContext(embed, query) IN
         /\ queryCalls' = IF embed = "ok" THEN queryCalls + 1 ELSE queryCalls
         /\ context' = large_context
         /\ IF NoContext(op, large_context)
            THEN /\ pc' = "returned"
                 /\ result' = NoContextResult(op)
                 /\ UNCHANGED tstate
            ELSE /\ pc' = "gathering"
                 /\ tstate' = [t \in Tasks(op) |-> "pending"]
                 /\ UNCHANGED result
    /\ UNCHANGED <<op, selection, outcome, tresult, embedCalls, genCalls, tcontext>>
    /\ UNCHANGED <<fnVars, retrVars, audioVars>>

\* a variant in which building the prompt takes the first record out of the list
ContextAfterPromptPopped(context_sections) == Tail(context_sections)

\* the context list once a task has built its prompt from it: json.dumps reads
\* the list and leaves it as it was
ContextAfterPrompt(context_sections) == context_sections

\* a dispatched task runs up to its await of generate_content_async
TaskCall(t) ==
    /\ tstate[t] = "pending"
    /\ tstate' = [tstate EXCEPT ![t] = "awaiting"]
    /\ genCalls' = [genCalls EXCEPT ![t] = @ + 1]
    /\ tcontext' = [tcontext EXCEPT ![t] = context]
    /\ context' = ContextAfterPrompt(context)
    /\ UNCHANGED <<op, selection, pc, outcome, tresult, result, embedCalls, queryCalls>>
    /\ UNCHANGED <<fnVars, retrVars, audioVars>>

GenOutcomes(o, t) ==
    {Raised, Blocked} \cup
    {Reply(r) : r \in IF o = "insights" THEN InsightReplies(t) ELSE PodcastReplies}

\* what the task t returns (or raises) given the outcome of its call
TaskBody(o, t, out) ==
    IF o = "insights" THEN find_insights_async(t, out)
    ELSE _generate_single_podcast_script(t, out)

\* a variant that issues the call again when it raised
StateAfterCallRetry(out) == IF out.kind = "raise" THEN "pending" ELSE "done"

\* the task makes one attempt: whatever the outcome of its call, it ends
StateAfterCall(out) == "done"

\* the generation call of a task is back and the task runs to its end
TaskFinish(t) ==
    /\ tstate[t] = "awaiting"
    /\ \E out \in GenOutcomes(op, t) :
         /\ outcome' = [outcome EXCEPT ![t] = out]
         /\ tresult' = [tresult EXCEPT ![t] = TaskBody(op, t, out)]
         /\ tstate' = [tstate EXCEPT ![t] = StateAfterCall(out)]
    /\ UNCHANGED <<op, selection, pc, context, result, embedCalls, queryCalls, genCalls, tcontext>>
    /\ UNCHANGED <<fnVars, retrVars, audioVars>>

GatherDone(o, states, results) ==
    IF o = "insights" THEN InsightsGatherDone(states, results)
    ELSE PodcastGatherDone(states, results)

ResultsInOrder(o, results) == [i \in 1..Len(TaskNames(o)) |-> results[TaskNames(o)[i]]]

\* the await of gather ends: the orchestrator aggregates and returns, or the
\* exception gather propagated leaves generate_persona_podcast_async
Gather ==
    /\ pc = "gathering"
    /\ GatherDone(op, tstate, tresult)
    /\ IF op = "insights"
       THEN /\ pc' = "returned"
            /\ result' = AggregateInsights(ResultsInOrder(op, tresult))
       ELSE IF \E t \in Tasks(op) : tstate[t] = "done" /\ IsExc(tresult[t])
       THEN /\ pc' = "raised"
            /\ UNCHANGED result
       ELSE /\ pc' = "returned"
            /\ result' = AggregatePodcasts(ResultsInOrder(op, tresult))
    /\ UNCHANGED <<op, selection, context, tstate, outcome, tresult, embedCalls, queryCalls, genCalls, tcontext>>
    /\ UNCHANGED <<fnVars, retrVars, audioVars>>

(***************************************************************************)
(* The extraction functions applied alone                                  *)
(***************************************************************************)
Pending == [kind |-> "pending", val |-> <<>>]

OrchIdle ==
    /\ op = "none" /\ selection = [body |-> "", ws |-> 0] /\ pc = "idle"
    /\ context = <<>>
    /\ tstate = NoResult /\ outcome = NoResult /\ tresult = NoResult
    /\ result = NoResult
    /\ embedCalls = 0 /\ queryCalls = 0 /\ genCalls = NoResult
    /\ tcontext = NoResult

\* JSON objects of at most two pairs over the given keys and values
Objects(keys, values) ==
    {<<>>}
      \cup {Single(k, v) : k \in keys, v \in values}
      \cup {Single(kk[1], v1) \o Single(kk[2], v2) :
               kk \in {q \in keys \X keys : q[1] # q[2]}, v1 \in values, v2 \in values}

BadJson == [json |-> "bad", obj |-> <<>>, pat |-> NoMatches, n |-> 50]

\* ---- extract_insights_from_response
InsightValues ==
    { JList(<<Section(1), JStr("loose text")>>),
      JList(<<JNum(1), JObj([text |-> JStr("x")])>>),
      JList(Sections(6)),
      JList(<<JNum(1), JNum(2)>>),
      JList(<<>>),
      JNum(7) }

InsightInputKeys(key) ==
    {key, alternative_keys(key)[2], alternative_keys(key)[3], "results"}

InsightInputs(key) ==
    {[EmptyText EXCEPT !.n = 40], BadJson}
      \cup {JsonReply(o, 50) : o \in Objects(InsightInputKeys(key), InsightValues)}

InitInsights ==
    /\ OrchIdle /\ RetrIdle /\ AudioIdle
    /\ fn = "extract_insights_from_response"
    /\ param \in {InsightKeys[i] : i \in 1..3}
    /\ input \in InsightInputs(param)
    /\ output = Pending

ApplyInsights ==
    /\ fn = "extract_insights_from_response"
    /\ output = Pending
    /\ output' = extract_insights_from_response(input, param, 0)
    /\ UNCHANGED <<fn, input, param>>
    /\ UNCHANGED <<orchVars, retrVars, audioVars>>

NextInsights == ApplyInsights

SpecInsights == InitInsights /\ [][NextInsights]_vars

\* ---- extract_podcast_conversation_from_response
ConversationValues ==
    { JList(Turns(3)), JList(Turns(4)), JList(Turns(5)),
      JList([Turns(5) EXCEPT ![2] = JNum(2)]),
      JStr("t1 t2 t3 t4") }

ConversationInputKeys == {"conversation", "dialogue", "script", "turns"}

\* the captures of one pattern, by which of them are long
Shapes ==
    { <<>>,
      <<TRUE, TRUE, TRUE>>,
      <<TRUE, FALSE, TRUE, TRUE, FALSE, TRUE, TRUE>>,
      [i \in 1..(MaxExchanges + 1) |-> TRUE] }

PatternMatches ==
    { [p \in 1..6 |-> Captures(p, sh[p])] :
        sh \in {f \in [1..6 -> Shapes] :
                   Cardinality({p \in 1..6 : f[p] # <<>>}) <= MaxActivePatterns} }

SomeMatches == OnePattern(4, <<TRUE, TRUE, TRUE, TRUE, TRUE>>)

ConversationInputs ==
    {[json |-> "obj", obj |-> o, pat |-> m, n |-> 50] :
        o \in Objects(ConversationInputKeys, ConversationValues),
        m \in {NoMatches, SomeMatches}}
      \cup {[json |-> j, obj |-> <<>>, pat |-> m, n |-> 50] :
               j \in {"none", "bad"}, m \in PatternMatches}
      \cup {[json |-> "obj", obj |-> Single("conversation", JList(Turns(3))), pat |-> m, n |-> 50] :
               m \in PatternMatches}

PersonaInputs == {"debater", "connections", "narrator"}

InitConversation ==
    /\ OrchIdle /\ RetrIdle /\ AudioIdle
    /\ fn = "extract_podcast_conversation_from_response"
    /\ param \in PersonaInputs
    /\ input \in ConversationInputs
    /\ output = Pending

ApplyConversation ==
    /\ fn = "extract_podcast_conversation_from_response"
    /\ output = Pending
    /\ output' = Return(extract_podcast_conversation_from_response(input, param))
    /\ UNCHANGED <<fn, input, param>>
    /\ UNCHANGED <<orchVars, retrVars, audioVars>>

NextConversation == ApplyConversation

SpecConversation == InitConversation /\ [][NextConversation]_vars

Next ==
    \/ StartRetrieval
    \/ FinishRetrieval
    \/ \E t \in Tasks(op) : TaskCall(t)
    \/ \E t \in Tasks(op) : TaskFinish(t)
    \/ Gather

Spec == Init /\ [][Next]_vars

(***************************************************************************)
(* retrieve_fast_async and retrieve_large_context_async invoked alone      *)
(***************************************************************************)
TopK == 30

Min(a, b) == IF a < b THEN a ELSE b

\* a long answer of the vector store: n records of distinct contents, except
\* that the record at position d (when d > 0) repeats the content of the first
Doc(i, c) ==
    JObj([original_content |-> JStr("doc " \o ToString(c)), page_number |-> JNum(i)])
LongCandidates(n, d) == [i \in 1..n |-> Doc(i, IF d > 0 /\ i = d THEN 1 ELSE i)]

LongCandidateLists ==
    {LongCandidates(n, d) : n \in {TopK, TopK + 1, TopK + 2}, d \in {0, 2, TopK + 1}}

\* a record whose bounding_box string decodes, but not to an object
ListBoundingBox ==
    JObj([original_content |-> JStr("gamma"), page_number |-> JNum(3),
          bounding_box |-> JStr("[1, 2]")])

\* answers of the store that hold this record
ListBoundingBoxLists ==
    {c \o <<ListBoundingBox>> : c \in SeqsUpTo(CandidatePool, 1)}
      \cup {<<ListBoundingBox>> \o c : c \in SeqsUpTo(CandidatePool, 1)}

RetrievalQueryOutcomes ==
    QueryOutcomes
      \cup {[kind |-> "ok", metadatas |-> c] : c \in LongCandidateLists}
      \cup {[kind |-> "ok", metadatas |-> c] : c \in ListBoundingBoxLists}

\* scores of reranker.predict for n pairs (scaled to integers)
ScoreVectors(n) ==
    IF n <= MaxCandidates + 1 THEN [1..n -> 0..2]
    ELSE { [i \in 1..n |-> 0], [i \in 1..n |-> i], [i \in 1..n |-> n - i],
           [i \in 1..n |-> i % 3], [i \in 1..n |-> (7 * i) % 5] }

RerankOutcomes(n) ==
    {[kind |-> "raise", scores |-> <<>>]}
      \cup {[kind |-> "ok", scores |-> sc] : sc \in ScoreVectors(n)}

\* building rerank_pairs calls meta.get on every candidate: it raises on one
\* that is not a dict
PairsRaise(candidate_metadatas) ==
    \E i \in 1..Len(candidate_metadatas) : ~IsDict(candidate_metadatas[i])

\* zip(scores, candidate_metadatas)
Zip(sc, metas) ==
    [i \in 1..Min(Len(sc), Len(metas)) |-> [score |-> sc[i], meta |-> metas[i]]]

\* a variant that puts a pair before the pairs of equal score
InsertDescBeforeEqual(x, sorted) ==
    LET before == {i \in 1..Len(sorted) : sorted[i].score > x.score}
    IN  SubSeq(sorted, 1, Cardinality(before)) \o <<x>>
          \o SubSeq(sorted, Cardinality(before) + 1, Len(sorted))

\* one step of the stable descending sort: the pair x, which comes after the
\* pairs of sorted in the input, goes behind every pair whose score is not lower
InsertDesc(x, sorted) ==
    LET before == {i \in 1..Len(sorted) : sorted[i].score >= x.score}
    IN  SubSeq(sorted, 1, Cardinality(before)) \o <<x>>
          \o SubSeq(sorted, Cardinality(before) + 1, Len(sorted))

\* sorted(pairs, key=lambda x: x[0], reverse=True)
RECURSIVE SortedDesc(_, _)
SortedDesc(pairs, acc) ==
    IF pairs = <<>> THEN acc
    ELSE SortedDesc(Tail(pairs), InsertDesc(Head(pairs), acc))

\* [meta for score, meta in scored_candidates[:k]]
TopOf(scored_candidates, k) ==
    [i \in 1..Min(k, Len(scored_candidates)) |-> scored_candidates[i].meta]

\* a variant whose fallback keeps every candidate
RerankFallbackAll(candidate_metadatas, rerank, k) ==
    IF PairsRaise(candidate_metadatas) \/ rerank.kind = "raise"
    THEN candidate_metadatas
    ELSE TopOf(SortedDesc(Zip(rerank.scores, candidate_metadatas), <<>>), k)

\* the rerank step with its fallback to the original order
Rerank(candidate_metadatas, rerank, k) ==
    IF PairsRaise(candidate_metadatas) \/ rerank.kind = "raise"
    THEN FirstN(candidate_metadatas, k)
    ELSE TopOf(SortedDesc(Zip(rerank.scores, candidate_metadatas), <<>>), k)

\* a variant that removes duplicates before it cuts at k
retrieve_fast_dedup_first(embed, query, rerank) ==
    IF embed = "raise" THEN Raise("EmbeddingError")
    ELSE IF embed = "novector" THEN Return(<<>>)
    ELSE IF query.kind = "raise" THEN Raise("QueryError")
    ELSE IF query.metadatas = <<>> THEN Return(<<>>)
    ELSE Return(FirstN(UniqueResults(
                    Rerank(query.metadatas, rerank, Len(query.metadatas)), {}), TopK))

\* the try block of retrieve_fast_async once the embedding call is back
retrieve_fast_body(embed, query, rerank) ==
    IF embed = "raise" THEN Raise("EmbeddingError")
    ELSE IF embed = "novector" THEN Return(<<>>)
    ELSE IF query.kind = "raise" THEN Raise("QueryError")
    ELSE IF query.metadatas = <<>> THEN Return(<<>>)
    ELSE Return(UniqueResults(Rerank(query.metadatas, rerank, TopK), {}))

InitRetrieval ==
    /\ op \in {"fast", "large"}
    /\ selection \in Selections
    /\ pc = "start"
    /\ context = <<>>
    /\ tstate = NoResult /\ outcome = NoResult /\ tresult = NoResult
    /\ result = NoResult
    /\ embedCalls = 0 /\ queryCalls = 0 /\ genCalls = NoResult
    /\ tcontext = NoResult
    /\ FnIdle /\ RetrIdle /\ AudioIdle

\* a retrieval up to its await of the embedding call; a selection that is too
\* short makes it return [] at once
RetrieveCall ==
    /\ pc = "start"
    /\ op \in {"fast", "large"}
    /\ IF SelectionTooShort(selection)
       THEN /\ pc' = "returned"
            /\ UNCHANGED embedCalls
       ELSE /\ pc' = "embedding"
            /\ embedCalls' = embedCalls + 1
    /\ UNCHANGED <<op, selection, context, tstate, outcome, tresult, result,
                   queryCalls, genCalls, tcontext>>
    /\ UNCHANGED <<fnVars, retrVars, audioVars>>

\* the embedding call is back: the query, the rerank step (fast only) and the
\* validate-and-clean loop run without a further await
RetrieveFinish ==
    /\ pc = "embedding"
    /\ op \in {"fast", "large"}
    /\ \E embed \in EmbedOutcomes, query \in RetrievalQueryOutcomes :
         \E rerank \in RerankOutcomes(Len(query.metadatas)) :
           LET queried == embed = "ok"
               found == queried /\ query.kind = "ok" /\ query.metadatas # <<>>
               predicted == op = "fast" /\ found /\ ~PairsRaise(query.metadatas)
               returned == CatchAll(IF op = "fast"
                                     THEN retrieve_fast_body(embed, query, rerank)
                                     ELSE retrieve_large_context_body(embed, query))
           IN  /\ queryCalls' = IF queried THEN queryCalls + 1 ELSE queryCalls
               /\ rerankCalls' = IF predicted THEN rerankCalls + 1 ELSE rerankCalls
               /\ candidates' = IF found THEN query.metadatas ELSE <<>>
               /\ scores' = IF predicted THEN rerank.scores ELSE <<>>
               /\ reranked' = IF op = "fast" /\ found
                              THEN Rerank(query.metadatas, rerank, TopK) ELSE <<>>
               /\ svc' = [embed |-> embed,
                          query |-> IF queried THEN query.kind ELSE "none",
                          rerank |-> IF predicted THEN rerank.kind
                                     ELSE IF op = "fast" /\ found THEN "nopairs"
                                     ELSE "none"]
               /\ pc' = IF IsExc(returned) THEN "raised" ELSE "returned"
               /\ context' = returned.val
    /\ UNCHANGED <<op, selection, tstate, outcome, tresult, result, embedCalls,
                   genCalls, tcontext>>
    /\ UNCHANGED <<fnVars, audioVars>>

NextRetrieval == RetrieveCall \/ RetrieveFinish

SpecRetrieval == InitRetrieval /\ [][NextRetrieval]_vars

(***************************************************************************)
(* generate_podcast: two overlapping requests of /generate_podcast         *)
(***************************************************************************)
MaxTurns == 2

\* what invocation i writes into the temporary file of its turn k
Audio(i, k) == [inv |-> i, idx |-> k]

\* temp_files: .podcast_turn_{idx}.mp3 in the working directory, whatever the
\* request; the file of turn k is files[k]
InitAudio ==
    /\ OrchIdle /\ FnIdle /\ RetrIdle
    /\ apc = [i \in Invocations |-> "idle"]
    /\ turns \in [Invocations -> 1..MaxTurns]
    /\ files = [k \in 1..MaxTurns |-> NoFile]
    /\ written = [i \in Invocations |-> {}]
    /\ segments = [i \in Invocations |-> <<>>]
    /\ exported = [i \in Invocations |-> <<>>]
    /\ removed = [i \in Invocations |-> <<>>]

\* the request arrives: the tasks are created and gather is awaited
PodcastStart(i) ==
    /\ apc[i] = "idle"
    /\ apc' = [apc EXCEPT ![i] = "synthesizing"]
    /\ UNCHANGED <<turns, files, written, segments, exported, removed>>
    /\ UNCHANGED <<orchVars, fnVars, retrVars>>

\* synthesize_azure_tts of one turn: the speech service answers and the
\* answer is written to the turn's temporary file
SynthesizeTurn(i) ==
    /\ apc[i] = "synthesizing"
    /\ \E k \in (1..turns[i]) \ written[i] :
         /\ files' = [files EXCEPT ![k] = Audio(i, k)]
         /\ written' = [written EXCEPT ![i] = @ \cup {k}]
    /\ UNCHANGED <<apc, turns, segments, exported, removed>>
    /\ UNCHANGED <<orchVars, fnVars, retrVars>>

\* resp.raise_for_status() raises for one turn: gather lets the exception
\* through and the endpoint answers with an error
SynthesizeFail(i) ==
    /\ apc[i] = "synthesizing"
    /\ written[i] # 1..turns[i]
    /\ apc' = [apc EXCEPT ![i] = "failed"]
    /\ UNCHANGED <<turns, files, written, segments, exported, removed>>
    /\ UNCHANGED <<orchVars, fnVars, retrVars>>

\* gather is over: every turn has been synthesized
GatherTurns(i) ==
    /\ apc[i] = "synthesizing"
    /\ written[i] = 1..turns[i]
    /\ apc' = [apc EXCEPT ![i] = "combining"]
    /\ UNCHANGED <<turns, files, written, segments, exported, removed>>
    /\ UNCHANGED <<orchVars, fnVars, retrVars>>

\* AudioSegment.from_file on the next temporary file; a missing file raises
ReadTurn(i) ==
    /\ apc[i] = "combining"
    /\ Len(segments[i]) < turns[i]
    /\ LET temp_file == files[Len(segments[i]) + 1] IN
       IF temp_file = NoFile
       THEN /\ apc' = [apc EXCEPT ![i] = "failed"]
            /\ UNCHANGED segments
       ELSE /\ segments' = [segments EXCEPT ![i] = Append(@, temp_file)]
            /\ UNCHANGED apc
    /\ UNCHANGED <<turns, files, written, exported, removed>>
    /\ UNCHANGED <<orchVars, fnVars, retrVars>>

\* combined.export(output_file): the output file name is unique to the request
Export(i) ==
    /\ apc[i] = "combining"
    /\ Len(segments[i]) = turns[i]
    /\ exported' = [exported EXCEPT ![i] = segments[i]]
    /\ apc' = [apc EXCEPT ![i] = "cleaning"]
    /\ UNCHANGED <<turns, files, written, segments, removed>>
    /\ UNCHANGED <<orchVars, fnVars, retrVars>>

\* os.remove on the next temporary file, a failure being ignored; after the
\* last one generate_podcast returns
RemoveTurn(i) ==
    /\ apc[i] = "cleaning"
    /\ LET k == Len(removed[i]) + 1 IN
       /\ removed' = [removed EXCEPT ![i] = Append(@, files[k])]
       /\ files' = [files EXCEPT ![k] = NoFile]
       /\ apc' = [apc EXCEPT ![i] = IF k = turns[i] THEN "done" ELSE "cleaning"]
    /\ UNCHANGED <<turns, written, segments, exported>>
    /\ UNCHANGED <<orchVars, fnVars, retrVars>>

NextAudio ==
    \/ \E i \in Invocations : PodcastStart(i)
    \/ \E i \in Invocations : SynthesizeTurn(i)
    \/ \E i \in Invocations : SynthesizeFail(i)
    \/ \E i \in Invocations : GatherTurns(i)
    \/ \E i \in Invocations : ReadTurn(i)
    \/ \E i \in Invocations : Export(i)
    \/ \E i \in Invocations : RemoveTurn(i)

SpecAudio == InitAudio /\ [][NextAudio]_vars

(***************************************************************************)
(* Properties                                                              *)
(***************************************************************************)
MaxInsights == 5

Returned(o) == op = o /\ pc = "returned"

\* a conversation as the data model has it: strings, even length, at least 4
ValidConversation(c) == AllStrings(c) /\ Len(c) % 2 = 0 /\ Len(c) >= 4

\* C1: whatever the embedding call, the vector query and the generation calls
\* do, neither generate_initial_insights_async nor
\* generate_persona_podcast_async raises: an invocation that has not returned
\* can still take a step, and it ends by returning a result object.
C1_NeverRaises ==
    /\ pc # "raised"
    /\ pc # "returned" => ENABLED Next
    /\ pc = "returned" => DOMAIN result # {}

C1_Witness ==
    /\ Returned("podcast")
    /\ outcome["debater"].kind = "raise"
    /\ outcome["investigator"].kind = "blocked"
    /\ outcome["fundamentals"] = Reply([EmptyText EXCEPT !.n = 90])

\* C2: for every reply text and persona, extract_podcast_conversation_from_response
\* returns a list of strings of even length at least 4, and a candidate of odd
\* length n >= 5 (under the expected key, under the first alias key present, or
\* the capped matches of the first qualifying pattern) comes back as its first
\* n-1 elements.
OddCandidate(c) == Len(c) >= 5 /\ Len(c) % 2 = 1
AllButLast(c) == SubSeq(c, 1, Len(c) - 1)
IsStringList(v, n) == IsList(v) /\ AllStrings(v.xs) /\ Len(v.xs) >= n

\* the list the JSON tiers validate, <<>> when they yield nothing
JsonCandidate(text) ==
    IF text.json # "obj" THEN <<>>
    ELSE IF HasKey(text.obj, "conversation")
    THEN IF IsStringList(GetKey(text.obj, "conversation"), 4)
         THEN GetKey(text.obj, "conversation").xs ELSE <<>>
    ELSE LET present == {i \in 1..6 : HasKey(text.obj, conversation_alternative_keys[i])} IN
         IF present = {} THEN <<>>
         ELSE LET first == CHOOSE i \in present : \A j \in present : i <= j
                  v == GetKey(text.obj, conversation_alternative_keys[first])
              IN  IF IsStringList(v, 4) THEN v.xs ELSE <<>>

LongCaptures(captures) ==
    LET long == {i \in 1..Len(captures) : Len(captures[i].body) > 10}
        Nth(k) == CHOOSE i \in long : Cardinality({j \in long : j < i}) = k - 1
    IN  [k \in 1..Cardinality(long) |-> JStr(captures[Nth(k)].body)]

\* the capped matches of the first pattern with at least 4 long captures
TextCandidate(text) ==
    LET ok == {p \in 1..6 : Len(LongCaptures(text.pat[p])) >= 4} IN
    IF ok = {} THEN <<>>
    ELSE LET p == CHOOSE q \in ok : \A r \in ok : q <= r
             c == LongCaptures(text.pat[p])
         IN  IF Len(c) > 12 THEN SubSeq(c, 1, 12) ELSE c

C2_ConversationParity ==
    (fn = "extract_podcast_conversation_from_response" /\ output # Pending) =>
        /\ output.kind = "value"
        /\ ValidConversation(output.val)
        /\ OddCandidate(JsonCandidate(input)) =>
               output.val = AllButLast(JsonCandidate(input))
        /\ (JsonCandidate(input) = <<>> /\ OddCandidate(TextCandidate(input))) =>
               output.val = AllButLast(TextCandidate(input))

C2_Witness ==
    /\ fn = "extract_podcast_conversation_from_response"
    /\ input.json = "obj"
    /\ input.obj = Single("dialogue", JList(Turns(5)))
    /\ param = "narrator"
    /\ output = Return(Turns(4))

\* C3 as stated: every conversation in the object returned by
\* generate_persona_podcast_async, on every path including the one where
\* context retrieval fails or is empty, is a sequence of strings of even
\* length at least 4.
C3_AllPathsAtLeastFour ==
    Returned("podcast") => \A p \in DOMAIN result : ValidConversation(result[p])

\* C3 amended: every conversation in the returned object is a sequence of
\* strings of even length; it has at least 4 elements on every path where the
\* retrieved context is non-empty, and is the 2-line placeholder where context
\* retrieval fails or is empty.
C3_EvenAndFourWithContext ==
    Returned("podcast") =>
        \A p \in DOMAIN result :
            /\ AllStrings(result[p])
            /\ Len(result[p]) % 2 = 0
            /\ context # <<>> => Len(result[p]) >= 4
            /\ context = <<>> => Len(result[p]) = 2

C3_Witness ==
    /\ Returned("podcast")
    /\ context # <<>>
    /\ outcome["debater"] = Reply(JsonReply(Single("conversation", JList(Turns(5))), 180))
    /\ result["debater"] = Turns(4)

\* C4: for every reply text, extract_insights_from_response ends by returning
\* a list without raising; a reply whose expected key holds a non-empty list
\* with no mapping or string element ends in the empty-list fallback.
C4_ReturnsList ==
    (fn = "extract_insights_from_response" /\ output # Pending) =>
        /\ output.kind = "value"
        /\ input = JsonReply(Single(param, JList(<<JNum(1), JNum(2)>>)), 50) =>
               output = Return(<<>>)

\* C5: in every result of generate_initial_insights_async each of the three
\* sequences holds at most 5 records.
C5_AtMostFive ==
    Returned("insights") => \A k \in DOMAIN result : Len(result[k]) <= MaxInsights

\* C6: with non-empty context, what generate_initial_insights_async returns for
\* a category is decided by the outcome of that category's own generation call
\* alone: the empty list when the call raised, was blocked or its extraction
\* failed, and otherwise what extraction of its own reply yields.
OwnInsights(key, out) ==
    IF out.kind # "reply" THEN <<>>
    ELSE IF IsExc(extract_insights_from_response(out.text, key, 0)) THEN <<>>
    ELSE extract_insights_from_response(out.text, key, 0).val

C6_CategoriesIndependent ==
    (Returned("insights") /\ context # <<>>) =>
        \A k \in Tasks("insights") : result[k] = OwnInsights(k, outcome[k])

C6_Witness ==
    /\ Returned("insights")
    /\ outcome["enhancements"].kind = "raise"
    /\ result["enhancements"] = <<>>
    /\ result["contradictions"] # <<>>
    /\ result["connections"] # <<>>

\* C7: in both fan-outs the orchestrator leaves its gather (returning or
\* raising) only when every dispatched task has finished: no task is still
\* pending or awaiting its call at that point.
C7_WaitsForAll ==
    pc \in {"returned", "raised"} => \A t \in DOMAIN tstate : tstate[t] \in {"none", "done"}

C7_Witness ==
    /\ Returned("insights")
    /\ \A t \in Tasks("insights") : tstate[t] = "done"
    /\ outcome["connections"].kind = "raise"
    /\ outcome["contradictions"].kind = "reply"

\* C8: when the deep retrieval yields the empty sequence (no results or a
\* failed step), generate_initial_insights_async returns three empty lists and
\* no generation call is issued in that invocation.
C8_EmptyContextInsights ==
    (op = "insights" /\ context = <<>>) =>
        /\ \A t \in DOMAIN genCalls : genCalls[t] = 0
        /\ \A t \in DOMAIN tstate : tstate[t] = "none"
        /\ pc \in {"start", "embedding", "returned"}
        /\ pc = "returned" => result = EmptyInsights

C8_Witness ==
    /\ Returned("insights")
    /\ embedCalls = 1 /\ queryCalls = 1
    /\ context = <<>>
    /\ result = EmptyInsights

\* C9: when context retrieval fails or is empty, generate_persona_podcast_async
\* returns the same two-line placeholder conversation for every persona of the
\* fixed set and issues no generation call.
C9_EmptyContextPodcasts ==
    (op = "podcast" /\ context = <<>>) =>
        /\ \A t \in DOMAIN genCalls : genCalls[t] = 0
        /\ pc \in {"start", "embedding", "returned"}
        /\ pc = "returned" =>
             /\ DOMAIN result = Personas
             /\ \A p \in Personas :
                  /\ result[p] = result["debater"]
                  /\ Len(result[p]) = 2
                  /\ result[p][1] = JStr("Cannot generate a podcast without context.")

C9_Witness ==
    /\ Returned("podcast")
    /\ embedCalls = 1 /\ queryCalls = 0
    /\ result["connections"] = PlaceholderConversation

\* C10: the key set of every returned aggregate is fixed: contradictions,
\* enhancements, connections for the insights, and one entry for each of
\* debater, investigator, fundamentals, connections for the podcasts,
\* whichever tasks failed.
C10_FixedKeys ==
    /\ Returned("insights") => DOMAIN result = {"contradictions", "enhancements", "connections"}
    /\ Returned("podcast") =>
          DOMAIN result = {"debater", "investigator", "fundamentals", "connections"}

C10_Witness ==
    /\ Returned("podcast")
    /\ \A t \in Tasks("podcast") : outcome[t].kind \in {"raise", "blocked"}
    /\ Cardinality(DOMAIN result) = 4

\* the list the validate-and-clean loop of the finished retrieval went through
Processed == IF op = "fast" THEN reranked ELSE candidates

RetrievalReturned == pc = "returned" /\ op \in {"fast", "large"}

HasContent(meta, c) == IsDict(meta) /\ ContentOf(meta) = c

\* the distinct non-empty original_content values of the records of a list
ValidContents(list) ==
    {ContentOf(list[i]) :
        i \in {j \in 1..Len(list) : IsDict(list[j]) /\ ~Falsy(ContentOf(list[j]))}}

FirstIndex(list, c) ==
    CHOOSE i \in 1..Len(list) :
        HasContent(list[i], c) /\ \A j \in 1..(i - 1) : ~HasContent(list[j], c)

\* C11: the validate-and-clean step of both retrievals outputs exactly one
\* record per distinct non-empty original_content of the list it processes
\* (the first record seen with it, its own fields kept), in first-seen order;
\* no output record has an empty or missing content and no two share one.
C11_OnePerDistinctContent ==
    RetrievalReturned =>
      /\ {ContentOf(context[i]) : i \in 1..Len(context)} = ValidContents(Processed)
      /\ Len(context) = Cardinality(ValidContents(Processed))
      /\ \A i \in 1..Len(context) :
           /\ IsDict(context[i]) /\ ~Falsy(ContentOf(context[i]))
           /\ \A j \in 1..Len(context) :
                i < j => FirstIndex(Processed, ContentOf(context[i]))
                           < FirstIndex(Processed, ContentOf(context[j]))
           /\ LET src == Processed[FirstIndex(Processed, ContentOf(context[i]))].d
              IN  \A k \in (DOMAIN src) \ {"bounding_box"} : context[i].d[k] = src[k]

\* a fast retrieval whose first and third processed records share a content,
\* with another content between them
C11_Witness ==
    /\ RetrievalReturned /\ op = "fast"
    /\ Len(reranked) = 3 /\ Len(context) = 2
    /\ IsDict(reranked[1]) /\ HasContent(reranked[3], ContentOf(reranked[1]))
    /\ reranked[1] # reranked[3]


RerankSucceeded == RetrievalReturned /\ op = "fast" /\ svc.rerank = "ok"

\* the place of candidate i in descending score order, equal scores in input order
Rank(sc, i) ==
    1 + Cardinality({j \in 1..Len(sc) : sc[j] > sc[i] \/ (sc[j] = sc[i] /\ j < i)})

ExampleA == JObj([original_content |-> JStr("A")])
ExampleB == JObj([original_content |-> JStr("B")])
ExampleC == JObj([original_content |-> JStr("C")])

\* C12: when reranking succeeds the fast path keeps the top 30 candidates in
\* descending score order, candidates of equal score in their input order;
\* scores [0.1, 0.9, 0.5] (in tenths) for [A, B, C] with k = 2 give [B, C].
C12_TopKStableDescending ==
    /\ RerankSucceeded =>
         /\ Len(reranked) = Min(TopK, Len(candidates))
         /\ \A i \in 1..Len(candidates) :
              Rank(scores, i) <= TopK => reranked[Rank(scores, i)] = candidates[i]
    /\ Rerank(<<ExampleA, ExampleB, ExampleC>>, [kind |-> "ok", scores |-> <<1, 9, 5>>], 2)
         = <<ExampleB, ExampleC>>

\* more than 30 candidates, two kept ones of equal score, and an order that
\* differs from the store's
C12_Witness ==
    /\ RerankSucceeded
    /\ Len(candidates) > TopK /\ Len(reranked) = TopK
    /\ reranked[1] # candidates[1]
    /\ \E i, j \in 1..Len(scores) :
         i < j /\ scores[i] = scores[j] /\ Rank(scores, j) <= TopK


\* reranker.predict was called by a fast retrieval and raised
RerankerRaised == op = "fast" /\ svc.rerank = "raise"

\* C13 as stated: if the reranker raises, the fast retrieval does not raise
\* and returns the first 30 of the original candidates, in the store's order
\* (a returned record being identified by its original_content).
C13_ReturnsFirstThirty ==
    RerankerRaised =>
      /\ pc = "returned"
      /\ Len(context) = Min(TopK, Len(candidates))
      /\ \A i \in 1..Len(context) : ContentOf(context[i]) = ContentOf(candidates[i])

\* C13 (amended): if the reranker raises, the fast retrieval does not raise;
\* the list it normalizes is the first 30 original candidates in the store's
\* order, so it returns one record per distinct non-empty content of those 30
\* in first-seen order, which is all of them when none repeats or is empty.
C13_FallbackToFirstThirty ==
    RerankerRaised =>
      LET first == FirstN(candidates, TopK) IN
      /\ pc = "returned"
      /\ reranked = first
      /\ {ContentOf(context[i]) : i \in 1..Len(context)} = ValidContents(first)
      /\ Len(context) = Cardinality(ValidContents(first))
      /\ \A i, j \in 1..Len(context) :
           i < j => FirstIndex(first, ContentOf(context[i]))
                      < FirstIndex(first, ContentOf(context[j]))
      /\ Cardinality(ValidContents(first)) = Len(first) =>
           \A i \in 1..Len(first) : ContentOf(context[i]) = ContentOf(first[i])

\* the reranker raised on more than 30 candidates whose second repeats the first
C13_Witness ==
    /\ RerankerRaised /\ pc = "returned"
    /\ Len(candidates) > TopK
    /\ ContentOf(candidates[2]) = ContentOf(candidates[1])
    /\ Len(context) = TopK - 1


\* the positions of a list that deduplication and validation keep: a dict with
\* a non-empty content that no earlier record has
Kept(list) ==
    {i \in 1..Len(list) :
        /\ IsDict(list[i]) /\ ~Falsy(ContentOf(list[i]))
        /\ \A j \in 1..(i - 1) : ~HasContent(list[j], ContentOf(list[i]))}

\* C14: retrieve_large_context_async never reranks: the reranker is not
\* called, and the result is the subsequence of the store's candidates, in the
\* store's order, left by dropping invalid records and repeated contents only.
C14_LargeNeverReranks ==
    op = "large" =>
      /\ rerankCalls = 0 /\ svc.rerank = "none" /\ scores = <<>> /\ reranked = <<>>
      /\ pc = "returned" =>
           /\ Len(context) = Cardinality(Kept(candidates))
           /\ \A i \in Kept(candidates) :
                LET at == Cardinality({j \in Kept(candidates) : j <= i})
                IN  /\ ContentOf(context[at]) = ContentOf(candidates[i])
                    /\ \A k \in (DOMAIN candidates[i].d) \ {"bounding_box"} :
                         context[at].d[k] = candidates[i].d[k]

\* a large retrieval over more than 30 candidates, one of them a repeat
C14_Witness ==
    /\ op = "large" /\ pc = "returned"
    /\ Len(candidates) = TopK + 2
    /\ Len(context) = TopK + 1
    /\ Kept(candidates) # 1..Len(candidates)


IsRetrieval == op \in {"fast", "large"}

\* C15: the two retrievals never raise; a failed or vectorless embedding, a
\* failed query and a query without candidates each give the empty sequence,
\* and no service is called after the step that failed.
C15_RetrievalNeverRaises ==
    IsRetrieval =>
      /\ pc # "raised"
      /\ embedCalls <= 1 /\ queryCalls <= 1 /\ rerankCalls <= 1
      /\ svc.embed \in {"raise", "novector"} =>
           /\ pc = "returned" /\ context = <<>>
           /\ queryCalls = 0 /\ svc.query = "none"
           /\ rerankCalls = 0 /\ svc.rerank = "none"
      /\ svc.query = "raise" =>
           /\ pc = "returned" /\ context = <<>>
           /\ rerankCalls = 0 /\ svc.rerank = "none"
      /\ (svc.query = "ok" /\ candidates = <<>>) =>
           /\ pc = "returned" /\ context = <<>>
           /\ rerankCalls = 0 /\ svc.rerank = "none"

\* a fast retrieval whose vector query failed after a successful embedding
C15_Witness ==
    /\ op = "fast" /\ pc = "returned"
    /\ svc.embed = "ok" /\ svc.query = "raise"
    /\ embedCalls = 1 /\ queryCalls = 1 /\ rerankCalls = 0
    /\ context = <<>>


InsightsExtracted == fn = "extract_insights_from_response" /\ output # Pending

\* the aliases of a key that the parsed reply holds with a non-empty list
AliasHits(obj, key) ==
    {a \in {alternative_keys(key)[i] : i \in 1..Len(alternative_keys(key))} :
        HasKey(obj, a) /\ IsList(GetKey(obj, a)) /\ GetKey(obj, a).xs # <<>>}

\* C16: when the reply lacks the expected key but holds a known alias of it
\* with a non-empty list, extract_insights_from_response returns a non-empty
\* list equal to the aliased content (each element in its validated form).
C16_AliasRecovered ==
    (/\ InsightsExtracted
     /\ input.json = "obj"
     /\ ~HasKey(input.obj, param)
     /\ AliasHits(input.obj, param) # {}) =>
        /\ output.kind = "value"
        /\ output.val # <<>>
        /\ \E a \in AliasHits(input.obj, param) :
             output.val = ValidateInsights(GetKey(input.obj, a).xs, InsightType(param))


CannedLines == 8

\* a reply text without a JSON object in which no dialogue pattern finds the
\* four lines it takes to be recognized
NoJsonNoPattern(text) ==
    /\ text.json # "obj"
    /\ \A p \in 1..6 : Len(LongCaptures(text.pat[p])) < MinExchanges

\* the generation for persona p was blocked, raised, or gave such a reply
TotalFallback(p) ==
    \/ outcome[p].kind \in {"raise", "blocked"}
    \/ outcome[p].kind = "reply" /\ NoJsonNoPattern(outcome[p].text)

\* C17: for each of the four personas, a blocked generation, a generation
\* exception and a reply with no JSON object and no recognizable dialogue
\* pattern all yield the same fixed 8-line canned conversation of that persona.
C17_CannedFallbackFixed ==
    Returned("podcast") =>
      \A p \in DOMAIN outcome :
        TotalFallback(p) =>
          /\ result[p] = fallback_conversations(p)
          /\ Len(result[p]) = CannedLines
          /\ \A q \in DOMAIN outcome : TotalFallback(q) /\ q # p => result[q] # result[p]

\* the four ways into the canned conversation in one invocation
C17_Witness ==
    /\ Returned("podcast")
    /\ outcome["debater"] = Reply(TextReply(OnePattern(2, <<TRUE, TRUE, TRUE>>), 70))
    /\ outcome["investigator"] = Reply([EmptyText EXCEPT !.n = 90])
    /\ outcome["fundamentals"].kind = "blocked"
    /\ outcome["connections"].kind = "raise"
    /\ result["investigator"] = fallback_conversations("investigator")


IsOrchestrator == op \in {"insights", "podcast"}

\* C18: in one invocation of an orchestrator there is at most one embedding
\* call and one vector query, at most one generation call per insight category
\* (3 in all) or per persona (4 in all), and every generation call is given
\* the one context that was retrieved.
C18_NoRetrySharedContext ==
    IsOrchestrator =>
      /\ embedCalls <= 1 /\ queryCalls <= 1
      /\ \A t \in DOMAIN genCalls : genCalls[t] <= 1
      /\ DOMAIN genCalls \subseteq
           (IF op = "insights" THEN {"contradictions", "enhancements", "connections"}
            ELSE {"debater", "investigator", "fundamentals", "connections"})
      /\ \A t \in DOMAIN genCalls : genCalls[t] > 0 => tcontext[t] = context

\* an insights invocation with a failed generation call, after its return
C18_Witness ==
    /\ Returned("insights")
    /\ embedCalls = 1 /\ queryCalls = 1
    /\ \A t \in Tasks("insights") : genCalls[t] = 1 /\ tcontext[t] = context
    /\ Len(context) = 2
    /\ outcome["enhancements"].kind = "raise"


\* what the expected key of a parsed reply holds, validated
OwnContent(obj, key) ==
    IF IsList(GetKey(obj, key))
    THEN ValidateInsights(GetKey(obj, key).xs, InsightType(key))
    ELSE <<>>

\* C19: when the expected key is present in the parsed reply (holding an empty
\* list, say), a list returned by extract_insights_from_response holds what
\* that key holds and nothing from the other keys of the reply.
C19_OtherKeysOnlyWhenAbsent ==
    (/\ InsightsExtracted
     /\ input.json = "obj"
     /\ HasKey(input.obj, param)
     /\ output.kind = "value") =>
        output.val = OwnContent(input.obj, param)


ConversationExtracted ==
    fn = "extract_podcast_conversation_from_response" /\ output # Pending

\* the parsed reply has neither the key conversation nor any alias of it
NoConversationKey(obj) ==
    /\ ~HasKey(obj, "conversation")
    /\ \A i \in 1..Len(conversation_alternative_keys) :
         ~HasKey(obj, conversation_alternative_keys[i])

\* C20: when the parsed reply has neither the key conversation nor an alias
\* key, the first other key holding a non-empty list gives the candidate, which
\* is validated like the expected key: a list of at least 4 strings comes back
\* (without its last element when its length is odd), so {"turns": [4 strings]}
\* yields those 4 strings.
C20_OtherListKeyScanned ==
    (/\ ConversationExtracted
     /\ input.json = "obj"
     /\ NoConversationKey(input.obj)
     /\ FirstListValue(input.obj) # <<>>
     /\ IsStringList(FirstListValue(input.obj)[1], MinExchanges)) =>
        LET c == FirstListValue(input.obj)[1].xs
        IN  output.val = IF Len(c) % 2 = 0 THEN c ELSE AllButLast(c)


\* the alias keys the parsed reply holds with a list of at least 4 strings
ShapedAliases(obj) ==
    {a \in {conversation_alternative_keys[i] : i \in 1..Len(conversation_alternative_keys)} :
        HasKey(obj, a) /\ IsStringList(GetKey(obj, a), MinExchanges)}

EvenPrefix(c) == IF Len(c) % 2 = 0 THEN c ELSE AllButLast(c)

\* C21: with the key conversation absent, a reply that holds some alias key
\* with a list of at least 4 strings gives the conversation of such an alias,
\* trimmed to even length, also when an alias earlier in the probe order is
\* present with a value of the wrong shape.
C21_AnyShapedAliasRecovered ==
    (/\ ConversationExtracted
     /\ input.json = "obj"
     /\ ~HasKey(input.obj, "conversation")
     /\ ShapedAliases(input.obj) # {}) =>
        \E a \in ShapedAliases(input.obj) :
            output.val = EvenPrefix(GetKey(input.obj, a).xs)


\* the patterns, in the order quoted, Host, Analyst, bulleted, numbered, dashed,
\* that find at least 4 matches of more than 10 characters
Qualifying(text) == {p \in 1..6 : Len(LongCaptures(text.pat[p])) >= MinExchanges}

\* C22: when the JSON tiers yield nothing, the text fallback uses the first
\* pattern in the fixed order that finds at least 4 matches longer than 10
\* characters: the result is the first 12 at most of these matches, in text
\* order, trimmed to even length, with no match of another pattern in it.
C22_FirstQualifyingPattern ==
    (/\ ConversationExtracted
     /\ JsonCandidate(input) = <<>>
     /\ Qualifying(input) # {}) =>
        LET p == CHOOSE q \in Qualifying(input) : \A r \in Qualifying(input) : q <= r
            own == LongCaptures(input.pat[p])
        IN  /\ output.val = EvenPrefix(FirstN(own, MaxExchanges))
            /\ Len(output.val) <= MaxExchanges
            /\ \A i \in 1..Len(output.val) : output.val[i] = own[i]
            /\ \A q \in (1..6) \ {p} : \A i \in 1..Len(input.pat[q]) :
                 \A j \in 1..Len(output.val) : output.val[j] # JStr(input.pat[q][i].body)

\* an earlier pattern with 3 long matches only, a later one with 13
C22_Witness ==
    /\ ConversationExtracted
    /\ input.json = "none"
    /\ Len(LongCaptures(input.pat[2])) = 3
    /\ Len(LongCaptures(input.pat[5])) = MaxExchanges + 1
    /\ output.val = FirstN(LongCaptures(input.pat[5]), MaxExchanges)


\* a reply made of alternating Host: and Analyst: lines, a Host line first:
\* only the Host and the Analyst patterns find matches in it
AlternatingReply(text) ==
    /\ text.json = "none"
    /\ \A q \in (1..6) \ {2, 3} : text.pat[q] = <<>>
    /\ text.pat[2] # <<>>
    /\ Len(text.pat[2]) - Len(text.pat[3]) \in {0, 1}

FromLine(s, captures) == \E i \in 1..Len(captures) : s = JStr(captures[i].body)

\* C23: a conversation the text fallback recovers from a reply of alternating
\* Host: and Analyst: lines alternates strictly: its elements of even index
\* (counted from 0) come from Host lines, those of odd index from Analyst lines.
C23_StrictAlternation ==
    (/\ ConversationExtracted
     /\ AlternatingReply(input)
     /\ Qualifying(input) # {}) =>
        \A j \in 1..Len(output.val) :
            IF j % 2 = 1 THEN FromLine(output.val[j], input.pat[2])
            ELSE FromLine(output.val[j], input.pat[3])


\* C24: for every persona whose generation call gave a reply that was not
\* blocked, the conversation in the aggregate is what the full conversation
\* extraction yields on the text of that reply; a reply that is a JSON object
\* with a conversation of at least 4 strings comes back as that conversation
\* (trimmed to even length), whatever the length of the text.
C24_ReplyFullyExtracted ==
    Returned("podcast") =>
      \A p \in DOMAIN outcome :
        outcome[p].kind = "reply" =>
          /\ result[p] = extract_podcast_conversation_from_response(outcome[p].text, p)
          /\ (/\ outcome[p].text.json = "obj"
              /\ HasKey(outcome[p].text.obj, "conversation")
              /\ IsStringList(GetKey(outcome[p].text.obj, "conversation"), MinExchanges)) =>
                 result[p] = EvenPrefix(GetKey(outcome[p].text.obj, "conversation").xs)


EmptyObject == JObj(<<>>)

\* the record of the processed list that a returned record was made from
SourceOf(r) == Processed[FirstIndex(Processed, ContentOf(r))].d

\* the stored bounding_box is a string that json.loads rejects
Unparsable(src) ==
    /\ "bounding_box" \in DOMAIN src
    /\ IsStr(src.bounding_box)
    /\ IsExc(JsonLoads(src.bounding_box.s))

\* C25: every record either retrieval returns is a mapping with page_number
\* (0 when it was missing), document_name ("Unknown Document" when it was
\* missing) and bounding_box, an object, the empty one when it was absent or
\* an unparsable string; and every candidate of the processed list that is a
\* mapping with a non-empty content is represented, whatever the others are.
C25_RecordsRepaired ==
    RetrievalReturned =>
      /\ \A i \in 1..Len(context) :
           LET r == context[i]  src == SourceOf(r) IN
           /\ IsDict(r)
           /\ {"page_number", "document_name", "bounding_box"} \subseteq DOMAIN r.d
           /\ r.d.page_number =
                (IF "page_number" \in DOMAIN src THEN src.page_number ELSE JNum(0))
           /\ r.d.document_name =
                (IF "document_name" \in DOMAIN src THEN src.document_name
                 ELSE JStr("Unknown Document"))
           /\ IsDict(r.d.bounding_box)
           /\ ("bounding_box" \notin DOMAIN src \/ Unparsable(src)) =>
                r.d.bounding_box = EmptyObject
      /\ {ContentOf(context[i]) : i \in 1..Len(context)} = ValidContents(Processed)


RequiredFields == {"original_content", "page_number", "document_name"}

\* the positions of a reply list whose element is a mapping or a string
Survivors(xs) == {i \in 1..Len(xs) : IsDict(xs[i]) \/ IsStr(xs[i])}

\* the record r is what the element e of the reply becomes
MadeFrom(r, e, key) ==
    IF IsDict(e)
    THEN /\ DOMAIN r.d = (DOMAIN e.d) \cup RequiredFields
         /\ \A k \in DOMAIN e.d : r.d[k] = e.d[k]
         /\ "original_content" \notin DOMAIN e.d =>
              r.d.original_content = JStr("Content not available for this " \o InsightType(key))
         /\ "page_number" \notin DOMAIN e.d => r.d.page_number = JNum(0)
         /\ "document_name" \notin DOMAIN e.d => r.d.document_name = JStr("Unknown Document")
    ELSE /\ DOMAIN r.d = RequiredFields \cup {"bounding_box"}
         /\ r.d.original_content = e
         /\ r.d.page_number = JNum(0)
         /\ r.d.document_name = JStr("Unknown Document")
         /\ r.d.bounding_box = EmptyObject

\* the list r is the survivors of the reply list xs, in order
SurvivorsOf(r, xs, key) ==
    /\ Len(r) = Cardinality(Survivors(xs))
    /\ \A i \in Survivors(xs) :
         MadeFrom(r[Cardinality({j \in Survivors(xs) : j <= i})], xs[i], key)

\* C26: every element of a list extract_insights_from_response returns is a
\* mapping with original_content, page_number and document_name; the list
\* under the expected key is accepted exactly when an element of it survives,
\* and then the result is its mappings with missing fields defaulted and its
\* strings wrapped into a minimal record, in order, everything else dropped.
C26_InsightsValidated ==
    (InsightsExtracted /\ output.kind = "value") =>
      /\ \A i \in 1..Len(output.val) :
           IsDict(output.val[i]) /\ RequiredFields \subseteq DOMAIN output.val[i].d
      /\ (/\ input.json = "obj"
          /\ HasKey(input.obj, param)
          /\ IsList(GetKey(input.obj, param))) =>
             LET xs == GetKey(input.obj, param).xs IN
             IF Survivors(xs) # {} THEN SurvivorsOf(output.val, xs, param)
             ELSE \/ output.val = <<>>
                  \/ \E i \in 1..Len(input.obj) :
                       /\ input.obj[i].k # param
                       /\ IsList(input.obj[i].v)
                       /\ Survivors(input.obj[i].v.xs) # {}
                       /\ SurvivorsOf(output.val, input.obj[i].v.xs, param)

\* a number is dropped and a mapping without the required fields is completed
C26_Witness ==
    /\ InsightsExtracted
    /\ input.obj = Single(param, JList(<<JNum(1), JObj([text |-> JStr("x")])>>))
    /\ output.kind = "value"
    /\ Len(output.val) = 1
    /\ output.val[1].d.text = JStr("x")
    /\ output.val[1].d.page_number = JNum(0)


\* the tasks that have built their prompt
Called == {t \in DOMAIN genCalls : genCalls[t] > 0}

\* from dispatch to aggregation no step changes the context list
ContextFrozen == [][pc = "gathering" => context' = context]_vars

\* C27: the context retrieved for a fan-out is read-only to the tasks: from
\* dispatch until aggregation no step of an insight or persona task changes
\* the context list or a record in it, and every task builds its prompt from
\* the same list, in whatever order the tasks run.
C27_ContextReadOnly ==
    /\ ContextFrozen
    /\ [](\A t \in Called : \A u \in Called : tcontext[t] = tcontext[u])

\* a podcast fan-out in mid-flight: one task done, one awaiting, two not started
C27_Witness ==
    /\ op = "podcast" /\ pc = "gathering"
    /\ tstate["connections"] = "done"
    /\ tstate["debater"] = "awaiting"
    /\ tstate["investigator"] = "pending" /\ tstate["fundamentals"] = "pending"
    /\ tcontext["connections"] = context /\ tcontext["debater"] = context
    /\ Len(context) = 2


\* C28: two overlapping invocations of generate_podcast do not interfere: the
\* audio an invocation exports is made of the segments synthesized from its
\* own turns, in order, and no invocation reads or removes a temporary file
\* that the other wrote; nor does one fail for a file the other removed.
C28_InvocationsIsolated ==
    \A i \in Invocations :
      /\ \A k \in 1..Len(segments[i]) : segments[i][k] = Audio(i, k)
      /\ apc[i] \in {"cleaning", "done"} =>
           exported[i] = [k \in 1..turns[i] |-> Audio(i, k)]
      /\ \A k \in 1..Len(removed[i]) : removed[i][k] \in {NoFile, Audio(i, k)}
      /\ ~(apc[i] = "failed" /\ written[i] = 1..turns[i])


\* C29 as stated: when reranking succeeds and the candidates hold at least 30
\* distinct non-empty contents, the fast retrieval returns exactly 30 records.
C29_ThirtyWhenThirtyDistinct ==
    (RerankSucceeded /\ Cardinality(ValidContents(candidates)) >= TopK) =>
        Len(context) = TopK

\* C29 (amended): when reranking succeeds the fast retrieval returns at most
\* 30 records, one per distinct non-empty content among the 30 best-scored
\* candidates: exactly 30 when these 30 have distinct non-empty contents, and
\* fewer otherwise, even if further distinct candidates remain in the pool.
C29_DedupAfterCut ==
    RerankSucceeded =>
      /\ Len(context) <= TopK
      /\ Len(context) = Cardinality(ValidContents(reranked))
      /\ \A i \in 1..Len(context) :
           \E j \in 1..Len(reranked) : ContentOf(context[i]) = ContentOf(reranked[j])
      /\ (Len(reranked) = TopK /\ Cardinality(ValidContents(reranked)) = TopK) =>
           Len(context) = TopK

\* 32 candidates of 31 distinct contents, the two equal ones both in the top
\* 30: 29 records come back
C29_Witness ==
    /\ RerankSucceeded
    /\ Len(candidates) = TopK + 2
    /\ Cardinality(ValidContents(candidates)) = TopK + 1
    /\ Len(reranked) = TopK
    /\ Len(context) = TopK - 1


\* the score predict gave to the candidate a returned record was made from
ScoreOf(r) == scores[FirstIndex(candidates, ContentOf(r))]

\* C30: in retrieve_fast_async a candidate that is not a mapping is dropped
\* and the others are not affected: unless the reranker itself fails, the
\* candidates are scored and the records come back in descending score order.
C30_NonMappingOnlyDropped ==
    (/\ RetrievalReturned /\ op = "fast"
     /\ \E i \in 1..Len(candidates) : ~IsDict(candidates[i])
     /\ svc.rerank # "raise") =>
        /\ rerankCalls = 1
        /\ svc.rerank = "ok"
        /\ \A i \in 1..Len(context) : \A j \in 1..Len(context) :
             i < j => ScoreOf(context[i]) >= ScoreOf(context[j])


====
